---- MODULE Spec2Model ----
(***************************************************************************)
(* A model of the staged rule compiler of the backup program               *)
(* (compileStages, src/backup.go), the part that turns an ordered list of  *)
(* [include]/[exclude] stages into the ordered list of files to archive.   *)
(*                                                                         *)
(* Strings are sequences of one-character strings, as Go strings are       *)
(* sequences of bytes: glob matching, path.Base, filepath.Join and         *)
(* sort.Strings are computed character by character.                       *)
(***************************************************************************)
EXTENDS Integers, Sequences, FiniteSets, TLC

(***************************************************************************)
(* Bounds of the model.                                                    *)
(***************************************************************************)
\* the largest number of stages of a stage sequence
MaxStages == 3
\* the largest number of rules of a stage sequence, all stages together
MaxRules == 3

(***************************************************************************)
(* Strings.                                                                *)
(***************************************************************************)
Dot == <<".">>
Slash == <<"/">>
Ext_txt == <<".", "t", "x", "t">>
a_txt == <<"a">> \o Ext_txt
secret_txt == <<"s", "e", "c", "r", "e", "t">> \o Ext_txt
star_txt == <<"*">> \o Ext_txt
d == <<"d">>
d_star == <<"d", "/", "*">>
d_a_txt == <<"d", "/">> \o a_txt
d_e == <<"d", "/", "e">>
d_e_b == <<"d", "/", "e", "/", "b">>
d_k == <<"d", "/", "k">>
d_p == <<"d", "/", "p">>

\* the bytes the model uses, in increasing byte value (sort.Strings compares bytes)
ByteOrder == <<"*", ".", "/", "?", "a", "b", "c", "d", "e", "k", "p", "r", "s", "t", "x">>

Ord(c) == CHOOSE n \in 1..Len(ByteOrder) : ByteOrder[n] = c

RECURSIVE StrLess(_, _)
\* a < b for Go strings
StrLess(a, b) ==
    IF a = <<>> THEN b # <<>>
    ELSE IF b = <<>> THEN FALSE
    ELSE IF Head(a) = Head(b) THEN StrLess(Tail(a), Tail(b))
    ELSE Ord(Head(a)) < Ord(Head(b))

RECURSIVE SortStrings(_)
\* sort.Strings, of a set of distinct names
SortStrings(S) ==
    IF S = {} THEN <<>>
    ELSE LET m == CHOOSE x \in S : \A y \in S \ {x} : StrLess(x, y)
         IN <<m>> \o SortStrings(S \ {m})

\* the index of the last "/" of s, 0 when it has none
LastSlash(s) ==
    LET at == {n \in 1..Len(s) : s[n] = "/"}
    IN IF at = {} THEN 0 ELSE CHOOSE n \in at : \A m \in at : m <= n

\* path.Base of a clean, non-empty relative path: its last element
Base(s) == SubSeq(s, LastSlash(s) + 1, Len(s))

\* filepath.Dir of a clean relative path: "." for a path of one element
Dir(s) == IF LastSlash(s) = 0 THEN Dot ELSE SubSeq(s, 1, LastSlash(s) - 1)

\* filepath.Join(dir, name) of a clean dir and a name: Join(".", n) is n
Join(dir, name) == IF dir = Dot THEN name ELSE dir \o Slash \o name

RECURSIVE Match(_, _)
\* filepath.Match(pattern, name) for patterns of literal bytes, '*' and '?':
\* '*' matches any sequence of non-separator bytes, '?' one non-separator
\* byte, and the pattern has to match all of name.  (No pattern of the model
\* holds '[' or '\\'.)
Match(pattern, name) ==
    IF pattern = <<>> THEN name = <<>>
    ELSE IF Head(pattern) = "*"
         THEN \/ Match(Tail(pattern), name)
              \/ /\ name # <<>>
                 /\ Head(name) # "/"
                 /\ Match(pattern, Tail(name))
    ELSE IF Head(pattern) = "?"
         THEN /\ name # <<>>
              /\ Head(name) # "/"
              /\ Match(Tail(pattern), Tail(name))
    ELSE /\ name # <<>>
         /\ Head(name) = Head(pattern)
         /\ Match(Tail(pattern), Tail(name))

\* filepath's hasMeta: the pattern holds a magic byte
HasMeta(pattern) == \E n \in 1..Len(pattern) : pattern[n] \in {"*", "?", "["}

(***************************************************************************)
(* The file tree under the home directory: a set of entries, each a clean  *)
(* relative path with what Lstat reports of it.  The tree does not change  *)
(* and can be read during a compilation.  os.ModeTemporary is never set by *)
(* Lstat on the systems the program builds for (it is a Plan 9 bit), so    *)
(* every entry has temporary = FALSE.  Symbolic links are leaves: the walk *)
(* does not follow them.                                                   *)
(***************************************************************************)
Entry(p, t) == [path |-> p, type |-> t, temporary |-> FALSE]

\* the directory of the literal test: exactly a.txt and secret.txt
HomeLiteral == {Entry(a_txt, "regular"), Entry(secret_txt, "regular")}

HomeTree ==
    { Entry(a_txt, "regular"),
      Entry(d, "dir"),
      Entry(d_a_txt, "regular"),
      Entry(d_e, "dir"),
      Entry(d_e_b, "regular"),
      Entry(d_k, "symlink"),
      Entry(d_p, "fifo") }

FileTrees == {HomeLiteral, HomeTree}

\* the glob patterns the rules of a list file are drawn from, per tree
PatternsFor(tree) ==
    IF tree = HomeLiteral THEN {star_txt, secret_txt} ELSE {star_txt, d, d_star}

NoInfo == [path |-> <<>>, type |-> "none", temporary |-> FALSE]

\* os.Lstat: the entry at path, NoInfo when there is none
Lstat(tree, path) ==
    IF \E e \in tree : e.path = path
    THEN CHOOSE e \in tree : e.path = path
    ELSE NoInfo

IsDir(info) == info.type = "dir"

\* readDirNames: the names in directory dir, sorted
ReadDirNames(tree, dir) ==
    SortStrings({Base(e.path) : e \in {x \in tree : Dir(x.path) = dir}})


(***************************************************************************)
(* filepath.Glob.                                                          *)
(***************************************************************************)
\* filepath.Split: the pattern up to and with its last "/", and the rest
SplitDir(pattern) == SubSeq(pattern, 1, LastSlash(pattern))
SplitFile(pattern) == SubSeq(pattern, LastSlash(pattern) + 1, Len(pattern))

\* filepath's cleanGlobPath: "" is ".", "/" stays, else the final "/" goes
CleanGlobPath(dir) ==
    IF dir = <<>> THEN Dot
    ELSE IF dir = Slash THEN dir
    ELSE SubSeq(dir, 1, Len(dir) - 1)

\* os.Stat(dir).IsDir(): the home directory itself is ".", a symbolic link
\* of the model never leads to a directory
StatIsDir(tree, dir) == dir = Dot \/ IsDir(Lstat(tree, dir))

\* filepath's glob: the names of directory dir that match pattern, sorted,
\* joined to dir and appended to matches
GlobDir(tree, dir, pattern, matches) ==
    IF ~StatIsDir(tree, dir) THEN matches
    ELSE LET names == ReadDirNames(tree, dir)
             hit == SelectSeq(names, LAMBDA n : Match(pattern, n))
         IN matches \o [k \in 1..Len(hit) |-> Join(dir, hit[k])]

RECURSIVE GlobEach(_, _, _, _)
\* the loop of Glob over the matches of the directory part
GlobEach(tree, dirs, file, matches) ==
    IF dirs = <<>> THEN matches
    ELSE GlobEach(tree, Tail(dirs), file, GlobDir(tree, Head(dirs), file, matches))

RECURSIVE Glob(_, _)
\* filepath.Glob(pattern), its error dropped as compileStages drops it
Glob(tree, pattern) ==
    IF ~HasMeta(pattern)
    THEN IF Lstat(tree, pattern) = NoInfo THEN <<>> ELSE <<pattern>>
    ELSE LET dir == CleanGlobPath(SplitDir(pattern))
             file == SplitFile(pattern)
         IN IF ~HasMeta(dir) THEN GlobDir(tree, dir, file, <<>>)
            ELSE IF dir = pattern THEN <<>>
            ELSE GlobEach(tree, Glob(tree, dir), file, <<>>)

(***************************************************************************)
(* The walk of one root match.                                             *)
(***************************************************************************)
\* skipFileType without its last return: only temporary files are skipped
skipFileType_KeepSpecial(info) == info.temporary

\* skipFileType: TRUE when the file is skipped for its type
skipFileType(info) ==
    IF info.temporary THEN TRUE
    ELSE IF info.type \in {"dir", "symlink"} THEN FALSE
    ELSE IF info.type = "regular" THEN FALSE
    ELSE TRUE

\* the loop over the exclusions in the walk function: some pattern matches
\* the walked path or its base name
Excluded(exclusions, wpath) ==
    \E n \in 1..Len(exclusions) :
        \/ Match(exclusions[n], wpath)
        \/ Match(exclusions[n], Base(wpath))

\* WalkFn that returns nil, not SkipDir, for an excluded directory
WalkFn_NoSkipDir(exclusions, wpath, info) ==
    [append |-> ~skipFileType(info) /\ ~IsDir(info) /\ ~Excluded(exclusions, wpath),
     ret |-> "nil"]

\* the walk function of compileStages on one visited entry: whether it
\* appends wpath to the list, and what it returns to filepath.Walk
WalkFn(exclusions, wpath, info) ==
    LET excluded == Excluded(exclusions, wpath)
    IN IF skipFileType(info) THEN [append |-> FALSE, ret |-> "nil"]
       ELSE IF IsDir(info)
            THEN IF excluded THEN [append |-> FALSE, ret |-> "SkipDir"]
                 ELSE [append |-> FALSE, ret |-> "nil"]
       ELSE IF ~excluded THEN [append |-> TRUE, ret |-> "nil"]
       ELSE [append |-> FALSE, ret |-> "nil"]

RECURSIVE walk(_, _, _)
RECURSIVE WalkNames(_, _, _, _)
\* walk without the return after the walk function has been called on what
\* is not a directory: it goes on to read it as a directory, fails, and
\* calls the walk function on it again
walk_NoReturn(tree, exclusions, path) ==
    LET info == Lstat(tree, path)
        here == [path |-> path, info |-> info, fn |-> WalkFn(exclusions, path, info)]
    IN IF ~IsDir(info) THEN <<here, here>>
       ELSE IF here.fn.ret # "nil" THEN <<here>>
       ELSE <<here>> \o WalkNames(tree, exclusions, path, ReadDirNames(tree, path))

\* filepath's walk: the entries the walk function is called on, in order,
\* each with what the walk function did; a directory first and then, unless
\* the walk function returned SkipDir for it, its names in sorted order
walk(tree, exclusions, path) ==
    LET info == Lstat(tree, path)
        here == [path |-> path, info |-> info, fn |-> WalkFn(exclusions, path, info)]
    IN IF ~IsDir(info) THEN <<here>>
       ELSE IF here.fn.ret # "nil" THEN <<here>>
       ELSE <<here>> \o WalkNames(tree, exclusions, path, ReadDirNames(tree, path))

WalkNames(tree, exclusions, path, names) ==
    IF names = <<>> THEN <<>>
    ELSE walk(tree, exclusions, Join(path, Head(names)))
            \o WalkNames(tree, exclusions, path, Tail(names))

\* filepath.Walk(file, ...): the visits of the walk that starts at root
Walk(tree, exclusions, root) == walk(tree, exclusions, root)

\* the paths one walk appends to the list, in order
Appended(tree, exclusions, root) ==
    LET hit == SelectSeq(Walk(tree, exclusions, root), LAMBDA v : v.fn.append)
    IN [k \in 1..Len(hit) |-> hit[k].path]

(***************************************************************************)
(* Stages: buildStage and buildRule, and the stage sequences of the model: *)
(* at most MaxStages stages with at most MaxRules rules together.          *)
(***************************************************************************)
ListFile == "backup.list"

buildRule(glob, line) == [glob |-> glob, line |-> line]

buildStage(include, source, rules) ==
    [include |-> include, source |-> source, rules |-> rules]

RECURSIVE SumTo(_, _)
\* count[1] + ... + count[k]
SumTo(count, k) == IF k = 0 THEN 0 ELSE count[k] + SumTo(count, k - 1)

\* the stages of a list file without blank lines: stage j is include[j], has
\* count[j] rules, and the globs of all rules are, in order, flat; a rule
\* carries the number of its line, the marker lines counted
StagesOf(include, count, flat) ==
    [j \in 1..Len(include) |->
        buildStage(include[j], ListFile,
            [m \in 1..count[j] |->
                buildRule(flat[SumTo(count, j - 1) + m],
                          SumTo(count, j - 1) + j + m)])]

\* the numbers of rules of k stages: at most MaxRules together
Counts(k) == {c \in [1..k -> 0..MaxRules] : SumTo(c, k) <= MaxRules}

\* the globs of the rules of a stage, in order
Globs(stage) == [m \in 1..Len(stage.rules) |-> stage.rules[m].glob]

(***************************************************************************)
(* compileStages.                                                          *)
(***************************************************************************)
RECURSIVE AllExclusions(_)
\* the first loop of compileStages: the globs of the rules of every exclude
\* stage, in order
AllExclusions(stgs) ==
    IF stgs = <<>> THEN <<>>
    ELSE IF ~Head(stgs).include THEN Globs(Head(stgs)) \o AllExclusions(Tail(stgs))
    ELSE AllExclusions(Tail(stgs))

\* SliceFrom with the slice forgotten: every exclusion stays
SliceFrom_Keep(exclusions, n) == exclusions

\* SliceFrom that leaves the last rule of the stage in the exclusions
SliceFrom_OffByOne(exclusions, n) ==
    SubSeq(exclusions, (IF n > 0 THEN n - 1 ELSE 0) + 1, Len(exclusions))

\* exclusions[n:]
SliceFrom(exclusions, n) == SubSeq(exclusions, n + 1, Len(exclusions))

VARIABLES
    fs,          \* the file tree under the home directory
    stages,      \* the argument of compileStages
    pc,          \* where compileStages is: start, stage, walk, done
    exclusions,  \* the exclusions not yet passed
    list,        \* the files found so far
    i,           \* the index of the stage of the second loop
    r,           \* the index of the rule of the include stage
    glob,        \* the matches of the glob of that rule
    g,           \* the index of the match being walked
    result       \* what compileStages returned: [list, err]

\* the state of one call of compileStages
compileVars == <<fs, stages, pc, exclusions, list, i, r, glob, g, result>>

NoResult == [list |-> <<>>, err |-> "none"]

VARIABLES
    first        \* what an earlier call of compileStages returned, if any

\* runBuild from the opening of the outputs on, archiveFile and program
VARIABLES
    outPaths,    \* the number of output paths; 0: standard output
    fileList,    \* what compileStages returned to runBuild
    gone,        \* the paths deleted since they were selected
    bpc,         \* where runBuild is
    opened,      \* the number of output files opened
    cur,         \* the index of the file of the loop over fileList
    defers,      \* the deferred calls of runBuild, the last one on top
    broken,      \* a write to a sink has failed: gzip and tar keep the error
    archive,     \* what the tar writer has been made to write, in order
    stderr,      \* the diagnostics printed
    closed,      \* the layers Close has been called on, in order
    ret,         \* what runBuild returned
    exit         \* the exit status of the process

buildVars ==
    <<outPaths, fileList, gone, bpc, opened, cur, defers, broken, archive,
      stderr, closed, ret, exit>>

\* runBuild does not run
BuildIdle ==
    /\ outPaths = 0
    /\ fileList = <<>>
    /\ gone = {}
    /\ bpc = "idle"
    /\ opened = 0
    /\ cur = 1
    /\ defers = <<>>
    /\ broken = FALSE
    /\ archive = <<>>
    /\ stderr = <<>>
    /\ closed = <<>>
    /\ ret = "none"
    /\ exit = "none"

\* setupCryptoStream and the Close of the managedWriter it returns
VARIABLES
    cpc,         \* where the confidentiality layer is
    heap,        \* the byte buffers that hold the passphrase or the key
    cret         \* what setupCryptoStream returned

cryptoVars == <<cpc, heap, cret>>

\* no buffer holds anything
NoBuffers == [b \in {} |-> <<>>]

\* setupCryptoStream does not run
CryptoIdle ==
    /\ cpc = "idle"
    /\ heap = NoBuffers
    /\ cret = "none"

\* the loop of runBuild over the list files, and loadStages
VARIABLES
    listFiles,   \* per list path: the lines of the file, or that it is absent
    lpc,         \* where the loading is
    lfile,       \* the index of the list file of the loop
    lline,       \* the number of the line the scanner returns next
    arrays,      \* the backing arrays of buildStage slices allocated so far
    loaded,      \* the slice stages: its array, length and capacity
    stagep,      \* the pointer stage of loadStages: an array and an index
    lerr         \* the list files reported as impossible to open

loadVars == <<listFiles, lpc, lfile, lline, arrays, loaded, stagep, lerr>>

\* a slice header
Slice(arr, len, cap) == [arr |-> arr, len |-> len, cap |-> cap]

\* the nil pointer
Nil == [arr |-> 0, idx |-> 0]

\* the list files are not being loaded
LoadIdle ==
    /\ listFiles = <<>>
    /\ lpc = "idle"
    /\ lfile = 1
    /\ lline = 1
    /\ arrays = <<>>
    /\ loaded = Slice(0, 0, 0)
    /\ stagep = Nil
    /\ lerr = <<>>

\* build: the loop over the arguments of the build command
VARIABLES
    args,        \* os.Args[2:]
    apc,         \* where build is
    ai,          \* the loop index i of build, from 0 as in the code
    lists,       \* listPaths
    outs,        \* outPaths
    aret,        \* what build returned
    aexit        \* the exit status of the process

argVars == <<args, apc, ai, lists, outs, aret, aexit>>

\* how build ends: the kind of what it returns, the message printed, and
\* the exit status of the process
Outcome(kind, msg, code) == [kind |-> kind, msg |-> msg, code |-> code]

\* build has not returned
NotYet == Outcome("none", <<>>, 0)

\* build does not run
ArgsIdle ==
    /\ args = <<>>
    /\ apc = "idle"
    /\ ai = 0
    /\ lists = <<>>
    /\ outs = <<>>
    /\ aret = NotYet
    /\ aexit = "none"

\* the state of the parts of the program that are not compileStages, and
\* not an earlier call of it
others == <<buildVars, cryptoVars, loadVars, argVars>>

\* the state that compileStages does not touch
outside == <<first, others>>

\* no part of the program but compileStages runs
OutsideIdle ==
    /\ first = NoResult
    /\ BuildIdle
    /\ CryptoIdle
    /\ LoadIdle
    /\ ArgsIdle

\* compileStages does not run
CompileIdle ==
    /\ fs = HomeTree
    /\ stages = <<>>
    /\ pc = "idle"
    /\ exclusions = <<>>
    /\ list = <<>>
    /\ i = 1
    /\ r = 1
    /\ glob = <<>>
    /\ g = 1
    /\ result = NoResult
    /\ first = NoResult

vars == <<compileVars, outside>>

Init ==
    /\ fs \in FileTrees
    /\ \E k \in 0..MaxStages :
         \E include \in [1..k -> BOOLEAN], count \in Counts(k) :
           \E flat \in [1..SumTo(count, k) -> PatternsFor(fs)] :
              stages = StagesOf(include, count, flat)
    /\ pc = "start"
    /\ exclusions = <<>>
    /\ list = <<>>
    /\ i = 1
    /\ r = 1
    /\ glob = <<>>
    /\ g = 1
    /\ result = NoResult
    /\ OutsideIdle

\* len(stages) == 0: return nil, nil
ReturnEmpty ==
    /\ pc = "start"
    /\ Len(stages) = 0
    /\ pc' = "done"
    /\ result' = [list |-> <<>>, err |-> "nil"]
    /\ UNCHANGED <<fs, stages, exclusions, list, i, r, glob, g>>
    /\ UNCHANGED outside

\* the first loop: build the list of all the exclusion rules, in order
BuildExclusions ==
    /\ pc = "start"
    /\ Len(stages) > 0
    /\ exclusions' = AllExclusions(stages)
    /\ list' = <<>>
    /\ pc' = "stage"
    /\ UNCHANGED <<fs, stages, i, r, glob, g, result>>
    /\ UNCHANGED outside

\* an include stage, one rule: expand its glob; a rule without a match is done
IncludeRule ==
    /\ pc = "stage"
    /\ i <= Len(stages)
    /\ stages[i].include
    /\ r <= Len(stages[i].rules)
    /\ LET found == Glob(fs, stages[i].rules[r].glob)
       IN IF found = <<>>
          THEN /\ r' = r + 1
               /\ UNCHANGED <<pc, glob>>
          ELSE /\ glob' = found
               /\ pc' = "walk"
               /\ UNCHANGED r
    /\ UNCHANGED <<fs, stages, exclusions, list, i, g, result>>
    /\ UNCHANGED outside

\* WalkRoot that leaves out the files that are in the list already
WalkRoot_Dedup ==
    /\ pc = "walk"
    /\ list' = list \o SelectSeq(Appended(fs, exclusions, glob[g]),
                                 LAMBDA p : \A n \in 1..Len(list) : list[n] # p)
    /\ IF g < Len(glob)
       THEN /\ g' = g + 1
            /\ UNCHANGED <<pc, r, glob>>
       ELSE /\ g' = 1
            /\ glob' = <<>>
            /\ r' = r + 1
            /\ pc' = "stage"
    /\ UNCHANGED <<fs, stages, exclusions, i, result>>
    /\ UNCHANGED outside

\* an include stage, one match of the glob of a rule: walk it, and append
\* the files that are not excluded; after the last match the rule is done
WalkRoot ==
    /\ pc = "walk"
    /\ list' = list \o Appended(fs, exclusions, glob[g])
    /\ IF g < Len(glob)
       THEN /\ g' = g + 1
            /\ UNCHANGED <<pc, r, glob>>
       ELSE /\ g' = 1
            /\ glob' = <<>>
            /\ r' = r + 1
            /\ pc' = "stage"
    /\ UNCHANGED <<fs, stages, exclusions, i, result>>
    /\ UNCHANGED outside

\* an include stage, after its last rule: on to the next stage
EndInclude ==
    /\ pc = "stage"
    /\ i <= Len(stages)
    /\ stages[i].include
    /\ r > Len(stages[i].rules)
    /\ i' = i + 1
    /\ r' = 1
    /\ UNCHANGED <<fs, stages, pc, exclusions, list, glob, g, result>>
    /\ UNCHANGED outside

\* ExcludeStage that takes the rules out of the stage, too
ExcludeStage_ConsumesRules ==
    /\ pc = "stage"
    /\ i <= Len(stages)
    /\ ~stages[i].include
    /\ exclusions' = SliceFrom(exclusions, Len(stages[i].rules))
    /\ stages' = [stages EXCEPT ![i].rules = <<>>]
    /\ i' = i + 1
    /\ UNCHANGED <<fs, pc, list, r, glob, g, result>>
    /\ UNCHANGED outside

\* an exclude stage: its rules leave the front of the exclusions
ExcludeStage ==
    /\ pc = "stage"
    /\ i <= Len(stages)
    /\ ~stages[i].include
    /\ exclusions' = SliceFrom(exclusions, Len(stages[i].rules))
    /\ i' = i + 1
    /\ UNCHANGED <<fs, stages, pc, list, r, glob, g, result>>
    /\ UNCHANGED outside

\* Return that takes an empty selection for an error
Return_EmptyIsError ==
    /\ pc = "stage"
    /\ i > Len(stages)
    /\ pc' = "done"
    /\ result' = [list |-> list, err |-> IF list = <<>> THEN "error" ELSE "nil"]
    /\ UNCHANGED <<fs, stages, exclusions, list, i, r, glob, g>>
    /\ UNCHANGED outside

\* after the last stage: return list, nil
Return ==
    /\ pc = "stage"
    /\ i > Len(stages)
    /\ pc' = "done"
    /\ result' = [list |-> list, err |-> "nil"]
    /\ UNCHANGED <<fs, stages, exclusions, list, i, r, glob, g>>
    /\ UNCHANGED outside

Next ==
    \/ ReturnEmpty
    \/ BuildExclusions
    \/ IncludeRule
    \/ WalkRoot
    \/ EndInclude
    \/ ExcludeStage
    \/ Return

Spec == Init /\ [][Next]_vars

(***************************************************************************)
(* compileStages called a second time, with the same stages and the same   *)
(* file tree: a call starts with new locals.                               *)
(***************************************************************************)
CompileAgain ==
    /\ pc = "done"
    /\ first = NoResult
    /\ first' = result
    /\ pc' = "start"
    /\ exclusions' = <<>>
    /\ list' = <<>>
    /\ i' = 1
    /\ r' = 1
    /\ glob' = <<>>
    /\ g' = 1
    /\ result' = NoResult
    /\ UNCHANGED <<fs, stages>>
    /\ UNCHANGED others

NextTwice ==
    \/ Next
    \/ CompileAgain

SpecTwice == Init /\ [][NextTwice]_vars

(***************************************************************************)
(* What the properties speak of.                                           *)
(***************************************************************************)
\* the number of times x occurs in seq
Count(seq, x) == Cardinality({n \in 1..Len(seq) : seq[n] = x})

InSeq(seq, x) == \E n \in 1..Len(seq) : seq[n] = x

\* path p lies below directory dir
IsUnder(p, dir) ==
    /\ Len(p) > Len(dir) + 1
    /\ SubSeq(p, 1, Len(dir)) = dir
    /\ p[Len(dir) + 1] = "/"

\* a glob of a rule of the stage matches path p or its base name
MatchesStage(stage, p) ==
    \E m \in 1..Len(stage.rules) :
        \/ Match(stage.rules[m].glob, p)
        \/ Match(stage.rules[m].glob, Base(p))

RECURSIVE ExcludePatternsFrom(_, _)
\* the globs of the exclude stages with an index of at least k, in order
ExcludePatternsFrom(stgs, k) ==
    IF k > Len(stgs) THEN <<>>
    ELSE (IF stgs[k].include THEN <<>> ELSE Globs(stgs[k]))
            \o ExcludePatternsFrom(stgs, k + 1)

\* a pattern of an exclude stage after stage k matches p or its base name
LaterExcluded(k, p) ==
    \E j \in (k + 1)..Len(stages) : ~stages[j].include /\ MatchesStage(stages[j], p)

\* the matches of every glob of the model in every tree of the model
GlobMatches == [t \in FileTrees |-> [p \in PatternsFor(t) |-> Glob(t, p)]]

\* the matches of a glob in the tree of this run
Found(pattern) == GlobMatches[fs][pattern]

\* path p is a match of the glob of a rule of the stage
IsRootOf(stage, p) ==
    \E m \in 1..Len(stage.rules) : InSeq(Found(stage.rules[m].glob), p)

\* what the step from this state to the next appended to the list
Added == SubSeq(list', Len(list) + 1, Len(list'))

IsFile(info) == info.type \in {"regular", "symlink"}

(***************************************************************************)
(* C1: while compileStages runs its second loop, the exclusions just       *)
(* before stage i is processed are the globs of the exclude stages with    *)
(* index >= i, in order: at an include stage these are the globs of the    *)
(* exclude stages after it, at an exclude stage with N rules the first N   *)
(* exclusions are its own globs (the slice is in bounds), and after the    *)
(* last stage no exclusion is left.                                        *)
(***************************************************************************)
C1_ExclusionWindow ==
    (pc \in {"stage", "walk"}) =>
        /\ exclusions = ExcludePatternsFrom(stages, i)
        /\ (i <= Len(stages) /\ stages[i].include) =>
                exclusions = ExcludePatternsFrom(stages, i + 1)
        /\ (i <= Len(stages) /\ ~stages[i].include) =>
                /\ Len(stages[i].rules) <= Len(exclusions)
                /\ SubSeq(exclusions, 1, Len(stages[i].rules)) = Globs(stages[i])
        /\ i > Len(stages) => exclusions = <<>>

\* an exclude stage with two rules is about to be processed, an exclude
\* stage with a rule has been passed
C1_Witness ==
    /\ pc = "stage"
    /\ i > 1
    /\ i <= Len(stages)
    /\ ~stages[i].include
    /\ Len(stages[i].rules) >= 2
    /\ \E j \in 1..(i - 1) : ~stages[j].include /\ Len(stages[j].rules) >= 1

(***************************************************************************)
(* C2: a regular file or symlink that the walk of include stage i visits   *)
(* is appended to the list if and only if no glob of an exclude stage      *)
(* after stage i matches its path or its base name; the globs of the       *)
(* exclude stages before stage i play no part.                             *)
(***************************************************************************)
C2_OnlyLaterExclusions ==
    [][ pc = "walk" =>
          LET visits == Walk(fs, exclusions, glob[g])
          IN \A n \in 1..Len(visits) :
                IsFile(visits[n].info) =>
                    (InSeq(Added, visits[n].path) <=> ~LaterExcluded(i, visits[n].path))
      ]_vars

\* exclude, include, exclude: a file that the first stage matches is in the
\* list, and a file that the globs of the second stage find and the third
\* stage matches is not
C2_Witness ==
    /\ pc = "done"
    /\ Len(stages) = 3
    /\ ~stages[1].include /\ stages[2].include /\ ~stages[3].include
    /\ \E n \in 1..Len(result.list) :
            /\ MatchesStage(stages[1], result.list[n])
            /\ ~MatchesStage(stages[3], result.list[n])
    /\ \E e \in fs :
            /\ IsFile(e)
            /\ IsRootOf(stages[2], e.path)
            /\ MatchesStage(stages[3], e.path)
            /\ ~InSeq(result.list, e.path)

(***************************************************************************)
(* The files of a stage, counted without any exclusion.                    *)
(***************************************************************************)
\* p is root or lies below it
AtOrUnder(p, root) == p = root \/ IsUnder(p, root)

\* the number of matches of the globs of the rules of the stage, each rule
\* and each match counted, from which p is reached: p is a regular file or a
\* symlink at or below the match
TimesFound(stage, p) ==
    Cardinality({ mn \in (1..Len(stage.rules)) \X (1..Cardinality(fs)) :
                    /\ mn[2] <= Len(Found(stage.rules[mn[1]].glob))
                    /\ AtOrUnder(p, Found(stage.rules[mn[1]].glob)[mn[2]])
                    /\ IsFile(Lstat(fs, p)) })

\* the stages are [Include A] [Exclude B] [Include C]
IsIncExcInc ==
    /\ Len(stages) = 3
    /\ stages[1].include
    /\ ~stages[2].include
    /\ stages[3].include

(***************************************************************************)
(* C3, as the specification states it: for [Include A] [Exclude B]         *)
(* [Include C], the files that C finds and B matches are not in the        *)
(* selection, and the files that A finds and B matches are in it.          *)
(***************************************************************************)
C3_AsStated ==
    (pc = "done" /\ IsIncExcInc) =>
        \A e \in fs :
            /\ (TimesFound(stages[3], e.path) > 0 /\ MatchesStage(stages[2], e.path))
                    => ~InSeq(result.list, e.path)
            /\ (TimesFound(stages[1], e.path) > 0 /\ MatchesStage(stages[2], e.path))
                    => InSeq(result.list, e.path)

(***************************************************************************)
(* C3, amended: for [Include A] [Exclude B] [Include C], a file that B     *)
(* matches is in the selection once for each time C finds it and never for *)
(* A finding it: B suppresses the files of A, which precedes it, and not   *)
(* the files of C, which follows it.                                       *)
(***************************************************************************)
C3_ExcludeActsBackwards ==
    (pc = "done" /\ IsIncExcInc) =>
        \A e \in fs :
            MatchesStage(stages[2], e.path) =>
                Count(result.list, e.path) = TimesFound(stages[3], e.path)

\* both cases happen: B matches a file that only A finds, which is not in
\* the list, and a file that C finds, which is
C3_Witness ==
    /\ pc = "done"
    /\ IsIncExcInc
    /\ \E e \in fs :
            /\ MatchesStage(stages[2], e.path)
            /\ TimesFound(stages[1], e.path) > 0
            /\ TimesFound(stages[3], e.path) = 0
            /\ ~InSeq(result.list, e.path)
    /\ \E e \in fs :
            /\ MatchesStage(stages[2], e.path)
            /\ TimesFound(stages[3], e.path) > 0
            /\ InSeq(result.list, e.path)

(***************************************************************************)
(* C4.  The list file of the literal test:                                 *)
(*     [include] *.txt [exclude] secret.txt [include] secret.txt           *)
(***************************************************************************)
LiteralStages ==
    StagesOf(<<TRUE, FALSE, TRUE>>, <<1, 1, 1>>, <<star_txt, secret_txt, secret_txt>>)

IsLiteralTest == fs = HomeLiteral /\ stages = LiteralStages

(***************************************************************************)
(* C4, as the specification states it: the literal test selects a.txt and  *)
(* nothing else.                                                           *)
(***************************************************************************)
C4_AsStated ==
    (pc = "done" /\ IsLiteralTest) =>
        /\ InSeq(result.list, a_txt)
        /\ ~InSeq(result.list, secret_txt)
        /\ \A n \in 1..Len(result.list) : result.list[n] = a_txt

(***************************************************************************)
(* C4, amended: the literal test selects a.txt and then secret.txt, each   *)
(* once: the exclude stage suppresses secret.txt for the first include     *)
(* stage, and the second include stage, which follows it, selects it.      *)
(***************************************************************************)
C4_LiteralSelection ==
    (pc = "done" /\ IsLiteralTest) =>
        result = [list |-> <<a_txt, secret_txt>>, err |-> "nil"]

\* the literal test has been compiled
C4_Witness == pc = "done" /\ IsLiteralTest /\ result.err = "nil"

(***************************************************************************)
(* The files below a match in the order of a pre-order walk, stated        *)
(* without the walk: the regular files and symlinks at or below the match, *)
(* sorted element by element (a directory before what it holds, the names  *)
(* of one directory by byte value).                                        *)
(***************************************************************************)
\* the byte value for the comparison of paths element by element: the
\* separator ends an element, so it goes before every byte of a name
OrdInPath(c) == IF c = "/" THEN 0 ELSE Ord(c)

RECURSIVE PathLess(_, _)
PathLess(a, b) ==
    IF a = <<>> THEN b # <<>>
    ELSE IF b = <<>> THEN FALSE
    ELSE IF Head(a) = Head(b) THEN PathLess(Tail(a), Tail(b))
    ELSE OrdInPath(Head(a)) < OrdInPath(Head(b))

RECURSIVE SortPaths(_)
SortPaths(S) ==
    IF S = {} THEN <<>>
    ELSE LET m == CHOOSE x \in S : \A y \in S \ {x} : PathLess(x, y)
         IN <<m>> \o SortPaths(S \ {m})

FilesBelow(root) ==
    SortPaths({e.path : e \in {x \in fs : IsFile(x) /\ AtOrUnder(x.path, root)}})

RECURSIVE FilesOfRoots(_)
FilesOfRoots(roots) ==
    IF roots = <<>> THEN <<>> ELSE FilesBelow(Head(roots)) \o FilesOfRoots(Tail(roots))

RECURSIVE FilesOfRules(_)
FilesOfRules(rules) ==
    IF rules = <<>> THEN <<>>
    ELSE FilesOfRoots(Found(Head(rules).glob)) \o FilesOfRules(Tail(rules))

RECURSIVE FilesOfStages(_)
\* stage order, then rule order, then glob-match order, then pre-order
FilesOfStages(stgs) ==
    IF stgs = <<>> THEN <<>>
    ELSE FilesOfRules(Head(stgs).rules) \o FilesOfStages(Tail(stgs))

OnlyIncludes == \A j \in 1..Len(stages) : stages[j].include

OnlyExcludes == \A j \in 1..Len(stages) : ~stages[j].include

(***************************************************************************)
(* C5: when every stage is an include stage, the selection is exactly the  *)
(* regular files and symlinks at or below the glob matches, in stage       *)
(* order, then rule order, then glob-match order, then pre-order; and for  *)
(* every stage sequence no directory and no special file is in the list.   *)
(***************************************************************************)
C5_OnlyIncludes ==
    /\ \A n \in 1..Len(list) : IsFile(Lstat(fs, list[n]))
    /\ (pc = "done" /\ OnlyIncludes) => result.list = FilesOfStages(stages)

\* two include stages or more, and the walks met a directory within a
\* directory, a symlink and a fifo
C5_Witness ==
    /\ pc = "done"
    /\ OnlyIncludes
    /\ Len(stages) >= 2
    /\ InSeq(result.list, d_e_b)
    /\ InSeq(result.list, d_k)
    /\ \E j \in 1..Len(stages) : IsRootOf(stages[j], d) \/ IsRootOf(stages[j], d_p)

MatchedByList(p) ==
    \E j \in 1..Len(stages) :
        \/ MatchesStage(stages[j], p)
        \/ \E e \in fs : IsUnder(p, e.path) /\ MatchesStage(stages[j], e.path)

C7_DefaultInclude ==
    (pc = "done" /\ Len(stages) > 0 /\ ~stages[1].include) =>
        \A e \in fs :
            (IsFile(e) /\ ~MatchedByList(e.path)) => InSeq(result.list, e.path)

(***************************************************************************)
(* The walks of a compilation, stated from the stage sequence: the walk of *)
(* match n of rule m of include stage k runs with the globs of the exclude *)
(* stages after stage k as its exclusions.                                 *)
(***************************************************************************)
\* the (stage, rule, match) triples of the walks
WalkIds ==
    { w \in (1..Len(stages)) \X (1..MaxRules) \X (1..Cardinality(fs)) :
        /\ stages[w[1]].include
        /\ w[2] <= Len(stages[w[1]].rules)
        /\ w[3] <= Len(Found(stages[w[1]].rules[w[2]].glob)) }

RootOfWalk(w) == Found(stages[w[1]].rules[w[2]].glob)[w[3]]

WindowOfWalk(w) == ExcludePatternsFrom(stages, w[1] + 1)

\* the directory at path p is visited by walk w and excluded there: no
\* directory from the match down to above p is excluded, and p is
PrunedBy(w, p) ==
    /\ IsDir(Lstat(fs, p))
    /\ AtOrUnder(p, RootOfWalk(w))
    /\ Excluded(WindowOfWalk(w), p)
    /\ \A e \in fs :
            (AtOrUnder(e.path, RootOfWalk(w)) /\ IsUnder(p, e.path))
                => ~Excluded(WindowOfWalk(w), e.path)

\* walk w reaches the file at path p and does not exclude it
ReachedBy(w, p) ==
    /\ IsFile(Lstat(fs, p))
    /\ AtOrUnder(p, RootOfWalk(w))
    /\ ~Excluded(WindowOfWalk(w), p)
    /\ \A e \in fs :
            (AtOrUnder(e.path, RootOfWalk(w)) /\ IsUnder(p, e.path))
                => ~Excluded(WindowOfWalk(w), e.path)

(***************************************************************************)
(* C8, as the specification states it: when a walk of an include stage     *)
(* visits a directory and finds it excluded, nothing below that directory  *)
(* is in the selection.                                                    *)
(***************************************************************************)
C8_AsStated ==
    pc = "done" =>
        \A w \in WalkIds : \A e \in fs :
            PrunedBy(w, e.path) =>
                \A n \in 1..Len(result.list) : ~IsUnder(result.list[n], e.path)

(***************************************************************************)
(* C8, amended: when the walk of a glob match visits a directory and finds *)
(* it excluded, that walk appends nothing below that directory, also not   *)
(* what no exclusion matches; what is below it can still be selected by    *)
(* the walk of another match, of the same or of another include stage.     *)
(***************************************************************************)
C8_PrunedInThisWalk ==
    [][ pc = "walk" =>
          \A e \in fs :
            ( /\ IsDir(e)
              /\ AtOrUnder(e.path, glob[g])
              /\ Excluded(exclusions, e.path) )
                => \A n \in 1..Len(Added) : ~IsUnder(Added[n], e.path)
      ]_vars

\* a walk has been into directory d, has found d/e excluded, and d/e/b,
\* which no exclusion matches, is not in the list
C8_Witness ==
    /\ pc = "done"
    /\ \E w \in WalkIds :
            /\ RootOfWalk(w) = d
            /\ PrunedBy(w, d_e)
            /\ ~Excluded(WindowOfWalk(w), d_e_b)
    /\ ~InSeq(result.list, d_e_b)

(***************************************************************************)
(* C9, as the specification states it: no path is more than once in the    *)
(* list that compileStages returns.                                        *)
(***************************************************************************)
C9_AsStated ==
    pc = "done" =>
        \A m, n \in 1..Len(result.list) : m # n => result.list[m] # result.list[n]

(***************************************************************************)
(* C9, amended: no path is more than once in what the walk of one glob     *)
(* match appends to the list; the list can hold a path once for every      *)
(* walk that reaches it.                                                   *)
(***************************************************************************)
C9_OncePerWalk ==
    [][ pc = "walk" =>
          \A m, n \in 1..Len(Added) : m # n => Added[m] # Added[n]
      ]_vars

\* a walk has appended several files, and the list holds a path twice
C9_Witness ==
    /\ pc = "done"
    /\ \E w \in WalkIds :
            Cardinality({e \in fs : ReachedBy(w, e.path)}) >= 2
    /\ \E e \in fs : Count(result.list, e.path) >= 2

(***************************************************************************)
(* C10: nothing is de-duplicated: a file is in the selection once for      *)
(* every walk (of a glob match of a rule of an include stage) that reaches *)
(* it and does not exclude it.                                             *)
(***************************************************************************)
C10_OncePerReach ==
    pc = "done" =>
        \A e \in fs :
            Count(result.list, e.path) = Cardinality({w \in WalkIds : ReachedBy(w, e.path)})

\* walks of two include stages have reached one file, and it is in the list
\* twice or more
C10_Witness ==
    /\ pc = "done"
    /\ \E e \in fs :
            /\ Count(result.list, e.path) >= 2
            /\ \E v, w \in WalkIds :
                    /\ v[1] # w[1]
                    /\ ReachedBy(v, e.path)
                    /\ ReachedBy(w, e.path)

(***************************************************************************)
(* C11: compileStages called twice with the same stage sequence on an      *)
(* unchanged file tree returns the same ordered list both times, and no    *)
(* step of compileStages changes the stage sequence.                       *)
(***************************************************************************)
C11_Idempotent ==
    [][ /\ stages' = stages
        /\ (pc' = "done" /\ first' # NoResult) => result' = first'
      ]_vars

\* the second call has returned a list of two files or more, after exclude
\* stages with rules have been passed
C11_Witness ==
    /\ pc = "done"
    /\ first # NoResult
    /\ Len(result.list) >= 2
    /\ \E j \in 1..Len(stages) : ~stages[j].include /\ Len(stages[j].rules) >= 1


(***************************************************************************)
(* runBuild from the opening of the outputs on, archiveFile,               *)
(* buildTarHeader and the exit status program gives the process.  The list *)
(* compileStages returned is an input; the files of the home directory may *)
(* be deleted at any moment while the program runs.                        *)
(***************************************************************************)
\* the longest list compileStages returns to runBuild
MaxSelected == 3
\* the largest number of -o options
MaxOutputs == 2

\* what the symbolic link d/k holds
up_a_txt == <<".", ".", "/">> \o a_txt

\* the paths compileStages may select: regular files and a symbolic link
Selectable == {a_txt, d_a_txt, d_k}

\* os.Readlink: the text of a symbolic link, "" when path is none
Readlink(tree, path) ==
    IF Lstat(tree, path).type = "symlink" /\ path = d_k THEN up_a_txt ELSE <<>>

\* the path a symbolic link leads to, the path itself when it is not a link
Resolve(tree, path) ==
    IF Lstat(tree, path).type = "symlink" /\ path = d_k THEN a_txt ELSE path

\* the file tree once the paths of deleted are gone
TreeWithout(deleted) == {e \in HomeTree : e.path \notin deleted}

\* os.Open follows symbolic links: it fails when what it reaches is absent
OpenFails(tree, path) == Lstat(tree, Resolve(tree, path)) = NoInfo

\* the switch of buildTarHeader on info.Mode & S_IFMT
TarType(info) ==
    CASE info.type = "dir" -> "TypeDir"
      [] info.type = "symlink" -> "TypeSymlink"
      [] info.type = "fifo" -> "TypeFifo"
      [] OTHER -> "TypeReg"

NoHeader == [Name |-> <<>>, Typeflag |-> "none", Linkname |-> <<>>]

\* buildTarHeader: nil when Lstat fails
buildTarHeader(tree, path) ==
    IF Lstat(tree, path) = NoInfo
    THEN NoHeader
    ELSE [Name |-> path,
          Typeflag |-> TarType(Lstat(tree, path)),
          Linkname |-> Readlink(tree, path)]

\* one thing the tar writer was made to write: the header of the file at
\* index at of fileList, its body (whole or cut short), or the end of archive
Written(kind, at, header, whole) ==
    [kind |-> kind, at |-> at, header |-> header, whole |-> whole]

\* the errors that are of type exitError
ExitErrors == {"expected argument"}

\* the exit status program gives for what build returned
ExitCode(err) ==
    IF err = "nil" THEN 0
    ELSE IF err \in ExitErrors THEN 1
    ELSE 2

\* the deferred call that runs next: the one deferred last
NextDeferred_Fifo(calls) == IF calls = <<>> THEN 0 ELSE 1

NextDeferred(calls) == Len(calls)

\* the state runBuild's part of the program does not touch
notBuild == <<compileVars, first, cryptoVars, loadVars, argVars>>

Deferred(layer, n) == [layer |-> layer, n |-> n]

\* runBuild is about to open its outputs: it has loaded the list files
InitBuild ==
    /\ CompileIdle
    /\ CryptoIdle
    /\ LoadIdle
    /\ ArgsIdle
    /\ outPaths \in 0..MaxOutputs
    /\ \E len \in 0..MaxSelected : fileList \in [1..len -> Selectable]
    /\ gone = {}
    /\ bpc = "outputs"
    /\ opened = 0
    /\ cur = 1
    /\ defers = <<>>
    /\ broken = FALSE
    /\ archive = <<>>
    /\ stderr = <<>>
    /\ closed = <<>>
    /\ ret = "none"
    /\ exit = "none"

\* another program, or the user, deletes a file while the build runs (what
\* is deleted once runBuild returns is read by nothing)
Delete ==
    /\ bpc \notin {"idle", "return", "exit"}
    /\ \E path \in Selectable \ gone : gone' = gone \cup {path}
    /\ UNCHANGED <<outPaths, fileList, bpc, opened, cur, defers, broken,
                   archive, stderr, closed, ret, exit>>
    /\ UNCHANGED notBuild

\* runBuild: os.OpenFile of the next output path succeeds, Close is deferred
OpenOutput ==
    /\ bpc = "outputs"
    /\ opened < outPaths
    /\ opened' = opened + 1
    /\ defers' = Append(defers, Deferred("file", opened + 1))
    /\ UNCHANGED <<outPaths, fileList, gone, bpc, cur, broken, archive,
                   stderr, closed, ret, exit>>
    /\ UNCHANGED notBuild

\* runBuild: os.OpenFile of the next output path fails, runBuild returns
OpenOutputFails ==
    /\ bpc = "outputs"
    /\ opened < outPaths
    /\ ret' = "open output"
    /\ bpc' = "return"
    /\ UNCHANGED <<outPaths, fileList, gone, opened, cur, defers, broken,
                   archive, stderr, closed, exit>>
    /\ UNCHANGED notBuild

\* runBuild: goHome fails, runBuild returns
GoHomeFails ==
    /\ bpc = "outputs"
    /\ opened = outPaths
    /\ ret' = "chdir"
    /\ bpc' = "return"
    /\ UNCHANGED <<outPaths, fileList, gone, opened, cur, defers, broken,
                   archive, stderr, closed, exit>>
    /\ UNCHANGED notBuild

\* runBuild: goHome and compileStages succeed, the gzip writer is made over
\* the output and the tar writer over the gzip writer, their Close deferred
BuildPipeline ==
    /\ bpc = "outputs"
    /\ opened = outPaths
    /\ defers' = defers \o <<Deferred("compressor", 0), Deferred("archiver", 0)>>
    /\ bpc' = "open"
    /\ UNCHANGED <<outPaths, fileList, gone, opened, cur, broken, archive,
                   stderr, closed, ret, exit>>
    /\ UNCHANGED notBuild

\* archiveFile: os.Open fails, a diagnostic is printed, nil is returned
OpenFileFails ==
    /\ bpc = "open"
    /\ cur <= Len(fileList)
    /\ OpenFails(TreeWithout(gone), fileList[cur])
    /\ stderr' = Append(stderr, [what |-> "Unable to open", at |-> cur])
    /\ cur' = cur + 1
    /\ UNCHANGED <<outPaths, fileList, gone, bpc, opened, defers, broken,
                   archive, closed, ret, exit>>
    /\ UNCHANGED notBuild

\* archiveFile: os.Open succeeds
OpenFile ==
    /\ bpc = "open"
    /\ cur <= Len(fileList)
    /\ ~OpenFails(TreeWithout(gone), fileList[cur])
    /\ bpc' = "lstat"
    /\ UNCHANGED <<outPaths, fileList, gone, opened, cur, defers, broken,
                   archive, stderr, closed, ret, exit>>
    /\ UNCHANGED notBuild

\* archiveFile: buildTarHeader returns nil, nil is returned
HeaderNil ==
    /\ bpc = "lstat"
    /\ buildTarHeader(TreeWithout(gone), fileList[cur]) = NoHeader
    /\ cur' = cur + 1
    /\ bpc' = "open"
    /\ UNCHANGED <<outPaths, fileList, gone, opened, defers, broken,
                   archive, stderr, closed, ret, exit>>
    /\ UNCHANGED notBuild

\* archiveFile: archiver.WriteHeader fails, nil is returned
WriteHeaderFails ==
    /\ bpc = "lstat"
    /\ buildTarHeader(TreeWithout(gone), fileList[cur]) # NoHeader
    /\ broken' = TRUE
    /\ cur' = cur + 1
    /\ bpc' = "open"
    /\ UNCHANGED <<outPaths, fileList, gone, opened, defers, archive,
                   stderr, closed, ret, exit>>
    /\ UNCHANGED notBuild

\* archiveFile: archiver.WriteHeader succeeds; nil is returned for a symbolic
\* link, the body is copied next for anything else
WriteHeader_CopiesSymlink ==
    /\ bpc = "lstat"
    /\ ~broken
    /\ buildTarHeader(TreeWithout(gone), fileList[cur]) # NoHeader
    /\ archive' = Append(archive,
           Written("header", cur,
                   buildTarHeader(TreeWithout(gone), fileList[cur]), TRUE))
    /\ bpc' = "copy"
    /\ UNCHANGED <<outPaths, fileList, gone, opened, cur, defers, broken,
                   stderr, closed, ret, exit>>
    /\ UNCHANGED notBuild

WriteHeader ==
    /\ bpc = "lstat"
    /\ ~broken
    /\ buildTarHeader(TreeWithout(gone), fileList[cur]) # NoHeader
    /\ archive' = Append(archive,
           Written("header", cur,
                   buildTarHeader(TreeWithout(gone), fileList[cur]), TRUE))
    /\ IF buildTarHeader(TreeWithout(gone), fileList[cur]).Typeflag = "TypeSymlink"
       THEN cur' = cur + 1 /\ bpc' = "open"
       ELSE cur' = cur /\ bpc' = "copy"
    /\ UNCHANGED <<outPaths, fileList, gone, opened, defers, broken,
                   stderr, closed, ret, exit>>
    /\ UNCHANGED notBuild

\* archiveFile: io.Copy copies the whole file, nil is returned
CopyBody ==
    /\ bpc = "copy"
    /\ ~broken
    /\ archive' = Append(archive, Written("body", cur, NoHeader, TRUE))
    /\ cur' = cur + 1
    /\ bpc' = "open"
    /\ UNCHANGED <<outPaths, fileList, gone, opened, defers, broken,
                   stderr, closed, ret, exit>>
    /\ UNCHANGED notBuild

\* archiveFile: io.Copy fails part of the way, on a read of the file or on a
\* write to the sink; an error is returned and runBuild returns it
CopyBodyFails_Swallowed ==
    /\ bpc = "copy"
    /\ \E cause \in {"read", "write"} : broken' = (broken \/ cause = "write")
    /\ archive' = Append(archive, Written("body", cur, NoHeader, FALSE))
    /\ cur' = cur + 1
    /\ bpc' = "open"
    /\ UNCHANGED <<outPaths, fileList, gone, opened, defers, stderr, closed,
                   ret, exit>>
    /\ UNCHANGED notBuild

CopyBodyFails ==
    /\ bpc = "copy"
    /\ \E cause \in {"read", "write"} : broken' = (broken \/ cause = "write")
    /\ archive' = Append(archive, Written("body", cur, NoHeader, FALSE))
    /\ ret' = "archiving"
    /\ bpc' = "return"
    /\ UNCHANGED <<outPaths, fileList, gone, opened, cur, defers, stderr,
                   closed, exit>>
    /\ UNCHANGED notBuild

\* runBuild: the loop over fileList is over, nil is returned
LoopEnd ==
    /\ bpc = "open"
    /\ cur > Len(fileList)
    /\ ret' = "nil"
    /\ bpc' = "return"
    /\ UNCHANGED <<outPaths, fileList, gone, opened, cur, defers, broken,
                   archive, stderr, closed, exit>>
    /\ UNCHANGED notBuild

\* the tar writer can end the archive: no write failed, no body is cut short
CanEndArchive ==
    /\ ~broken
    /\ archive # <<>> => archive[Len(archive)].whole

\* runBuild returns: the next deferred Close runs, its result is dropped.
\* The Close of the tar writer writes the end of the archive when it can.
RunDeferred ==
    /\ bpc = "return"
    /\ defers # <<>>
    /\ LET n == NextDeferred(defers)
           call == defers[n]
       IN /\ closed' = Append(closed, call)
          /\ defers' = SubSeq(defers, 1, n - 1) \o SubSeq(defers, n + 1, Len(defers))
          /\ archive' = IF call.layer = "archiver" /\ CanEndArchive
                        THEN Append(archive, Written("end", 0, NoHeader, TRUE))
                        ELSE archive
    /\ UNCHANGED <<outPaths, fileList, gone, bpc, opened, cur, broken,
                   stderr, ret, exit>>
    /\ UNCHANGED notBuild

\* runBuild returns: the next deferred Close runs and its write or flush to
\* the sink fails; the error is dropped
RunDeferredFails ==
    /\ bpc = "return"
    /\ defers # <<>>
    /\ LET n == NextDeferred(defers)
           call == defers[n]
       IN /\ closed' = Append(closed, call)
          /\ defers' = SubSeq(defers, 1, n - 1) \o SubSeq(defers, n + 1, Len(defers))
    /\ broken' = TRUE
    /\ UNCHANGED <<outPaths, fileList, gone, bpc, opened, cur, archive,
                   stderr, ret, exit>>
    /\ UNCHANGED notBuild

\* program: build has returned, the process exits
Exit ==
    /\ bpc = "return"
    /\ defers = <<>>
    /\ exit' = ExitCode(ret)
    /\ bpc' = "exit"
    /\ UNCHANGED <<outPaths, fileList, gone, opened, cur, defers, broken,
                   archive, stderr, closed, ret>>
    /\ UNCHANGED notBuild

NextBuild ==
    \/ Delete
    \/ OpenOutput
    \/ OpenOutputFails
    \/ GoHomeFails
    \/ BuildPipeline
    \/ OpenFileFails
    \/ OpenFile
    \/ HeaderNil
    \/ WriteHeaderFails
    \/ WriteHeader
    \/ CopyBody
    \/ CopyBodyFails
    \/ LoopEnd
    \/ RunDeferred
    \/ RunDeferredFails
    \/ Exit

SpecBuild == InitBuild /\ [][NextBuild]_vars


(***************************************************************************)
(* Properties of runBuild and archiveFile, checked under SpecBuild.        *)
(***************************************************************************)
\* C12: sink errors are fatal: when a write to a sink has failed at any point
\* of the run (at a header, in a body, or when the layers are closed), runBuild
\* returns a non-nil error and the exit status is not zero.
C12_SinkErrorsFatal ==
    (bpc = "exit" /\ broken) => (ret # "nil" /\ exit # 0)

\* a sequence, last element first
Reversed(s) == [j \in 1..Len(s) |-> s[Len(s) + 1 - j]]

\* runBuild has returned after it built the pipeline
PipelineBuilt == ret \in {"nil", "archiving"}

\* the Close calls of a run with n output files, first to last: the tar
\* writer, the gzip writer, the output files from the last opened to the first
TeardownOrder(n) ==
    <<Deferred("archiver", 0), Deferred("compressor", 0)>>
        \o [j \in 1..n |-> Deferred("file", n + 1 - j)]

CutShortAt(at) ==
    IF \E j \in 1..Len(archive) :
           archive[j].kind = "body" /\ archive[j].at = at /\ ~archive[j].whole
    THEN CHOOSE j \in 1..Len(archive) :
           archive[j].kind = "body" /\ archive[j].at = at /\ ~archive[j].whole
    ELSE 0

\* C14: mid-body I/O errors are fatal: once the copy of a file's content has
\* failed after its header was written, archiveFile returns an error, runBuild
\* stops at that file (no later selected file is opened or written: the loop
\* index stays, nothing but the end of teardown follows in the archive, no
\* diagnostic names a later file) and returns that error, and the exit status
\* is not zero.
C14_MidBodyFatal ==
    \A at \in 1..Len(fileList) :
        CutShortAt(at) # 0 =>
            /\ bpc \in {"return", "exit"}
            /\ ret = "archiving"
            /\ cur = at
            /\ CutShortAt(at) = Len(archive)
            /\ archive[Len(archive) - 1] =
                   Written("header", at, archive[Len(archive) - 1].header, TRUE)
            /\ \A j \in 1..Len(stderr) : stderr[j].at < at
            /\ bpc = "exit" => exit # 0

\* the copy of the first of several selected files failed and the run is over
C14_Witness ==
    /\ bpc = "exit"
    /\ Len(fileList) >= 2
    /\ CutShortAt(1) # 0
    /\ ~OpenFails(TreeWithout(gone), fileList[2])

\* the header of the file at index at of fileList has been written
HeaderWritten(at) ==
    \E j \in 1..Len(archive) : archive[j].kind = "header" /\ archive[j].at = at

\* a diagnostic has been printed for the file at index at of fileList
Reported(at) == \E j \in 1..Len(stderr) : stderr[j].at = at

\* C15: every non-fatal skip is reported: whenever archiveFile has left out a
\* selected file without aborting the run (the open failed, the metadata
\* capture returned absent, or the header write failed), a diagnostic has been
\* printed for that file.
C15_SkipsReported ==
    \A at \in 1..Len(fileList) :
        (at < cur /\ ~HeaderWritten(at)) => Reported(at)

\* the whole body of the file at index at of fileList has been written
BodyWritten(at) ==
    \E j \in 1..Len(archive) :
        archive[j].kind = "body" /\ archive[j].at = at /\ archive[j].whole

\* nothing failed in the run but the access to deleted files: the outputs
\* opened, the home directory was entered, no write and no read failed
NoFault ==
    /\ ~broken
    /\ ret \notin {"open output", "chdir"}
    /\ \A at \in 1..Len(fileList) : CutShortAt(at) = 0

\* C16: fault isolation: when one selected file is deleted after the selection
\* and nothing else fails, the run completes successfully (runBuild returns
\* nil, exit status 0) and every other selected file is archived: its header
\* is written, and its whole body unless it is a symbolic link.
C16_FaultIsolation ==
    (/\ bpc = "exit"
     /\ NoFault
     /\ Cardinality(gone) = 1
     /\ \E at \in 1..Len(fileList) : fileList[at] \in gone) =>
        /\ ret = "nil"
        /\ exit = 0
        /\ \A at \in 1..Len(fileList) :
               fileList[at] \notin gone =>
                   /\ HeaderWritten(at)
                   /\ Lstat(HomeTree, fileList[at]).type # "symlink"
                          => BodyWritten(at)

MaxPassword == 34
\* the length of an AES-256 key
KeyLen == 32

Zeros(n) == [j \in 1..n |-> 0]

\* lines 367-371: the passphrase padded with zero bytes or cut to KeyLen bytes
PadToKey(password) ==
    IF Len(password) < KeyLen
    THEN password \o Zeros(KeyLen - Len(password))
    ELSE IF Len(password) > KeyLen
    THEN SubSeq(password, 1, KeyLen)
    ELSE password

\* heap with buffer b holding bytes
Hold(b, bytes) ==
    [x \in DOMAIN heap \cup {b} |-> IF x = b THEN bytes ELSE heap[x]]

\* managedWriter.Close: every byte of w.password is set to 0
Zeroed(bytes) == [j \in 1..Len(bytes) |-> 0]

\* the state setupCryptoStream's part of the program does not touch
notCrypto == <<compileVars, first, buildVars, loadVars, argVars>>

InitCrypto ==
    /\ CompileIdle
    /\ BuildIdle
    /\ LoadIdle
    /\ ArgsIdle
    /\ cpc = "read"
    /\ heap = NoBuffers
    /\ cret = "none"

\* term.ReadPassword returns what was typed
ReadPassword ==
    /\ cpc = "read"
    /\ \E len \in 0..MaxPassword : heap' = Hold("typed", [j \in 1..len |-> 1])
    /\ cpc' = "pad"
    /\ UNCHANGED cret
    /\ UNCHANGED notCrypto

\* term.ReadPassword fails, setupCryptoStream returns the error
ReadPasswordFails ==
    /\ cpc = "read"
    /\ cret' = "read error"
    /\ cpc' = "failed"
    /\ UNCHANGED heap
    /\ UNCHANGED notCrypto

\* the passphrase is padded or cut into a new string, and []byte(password),
\* a copy of it, is given to aes.NewCipher, which expands it into the block
NewCipher ==
    /\ cpc = "pad"
    /\ heap' = [x \in DOMAIN heap \cup {"password", "key", "block"} |->
                  IF x \in DOMAIN heap THEN heap[x] ELSE PadToKey(heap["typed"])]
    /\ cpc' = "rand"
    /\ UNCHANGED cret
    /\ UNCHANGED notCrypto

\* rand.Read fails, setupCryptoStream returns the error
RandFails ==
    /\ cpc = "rand"
    /\ cret' = "rand error"
    /\ cpc' = "failed"
    /\ UNCHANGED heap
    /\ UNCHANGED notCrypto

\* rand.Read fills the IV
Rand ==
    /\ cpc = "rand"
    /\ cpc' = "iv"
    /\ UNCHANGED <<heap, cret>>
    /\ UNCHANGED notCrypto

\* output.Write of the IV fails, setupCryptoStream returns the error
WriteIVFails ==
    /\ cpc = "iv"
    /\ cret' = "write error"
    /\ cpc' = "failed"
    /\ UNCHANGED heap
    /\ UNCHANGED notCrypto

\* the IV is written; the managedWriter is returned with another copy of the
\* passphrase, []byte(password)
WriteIV ==
    /\ cpc = "iv"
    /\ heap' = Hold("managed", heap["password"])
    /\ cret' = "nil"
    /\ cpc' = "open"
    /\ UNCHANGED notCrypto

\* the deferred Close of the managedWriter runs
CloseStream ==
    /\ cpc = "open"
    /\ heap' = Hold("managed", Zeroed(heap["managed"]))
    /\ cpc' = "closed"
    /\ UNCHANGED cret
    /\ UNCHANGED notCrypto

NextCrypto ==
    \/ ReadPassword
    \/ ReadPasswordFails
    \/ NewCipher
    \/ RandFails
    \/ Rand
    \/ WriteIVFails
    \/ WriteIV
    \/ CloseStream

SpecCrypto == InitCrypto /\ [][NextCrypto]_vars

\* C17: passphrase zeroing: once the confidentiality layer is done with the
\* passphrase (setupCryptoStream failed, or it succeeded and the stream was
\* closed), every byte of every buffer that holds the passphrase or the key
\* is zero.
C17_PassphraseZeroed ==
    cpc \in {"failed", "closed"} =>
        \A b \in DOMAIN heap : \A j \in 1..Len(heap[b]) : heap[b][j] = 0


(***************************************************************************)
(* The loop of runBuild over the list files, and loadStages.  The slice    *)
(* stages is a header over a backing array, as in Go: append writes in     *)
(* place while the capacity lasts and moves the elements to a new array    *)
(* when it does not; the pointer stage names a slot of one array.          *)
(***************************************************************************)
\* the largest number of -l options
MaxLists == 2
\* the largest number of lines of all list files together
MaxLines == 3

marker_include == <<"[", "i", "n", "c", "l", "u", "d", "e", "]">>
marker_exclude == <<"[", "e", "x", "c", "l", "u", "d", "e", "]">>
Space == <<" ">>

\* the lines a list file is made of
LineAlphabet ==
    { marker_include,
      marker_exclude \o Space,
      Space,
      star_txt,
      Space \o d \o Space }

RECURSIVE TrimLeft(_)
TrimLeft(s) ==
    IF s # <<>> /\ <<Head(s)>> = Space THEN TrimLeft(Tail(s)) ELSE s

RECURSIVE TrimRight(_)
TrimRight(s) ==
    IF s # <<>> /\ <<s[Len(s)]>> = Space
    THEN TrimRight(SubSeq(s, 1, Len(s) - 1))
    ELSE s

\* strings.TrimSpace
TrimSpace(s) == TrimRight(TrimLeft(s))

\* a list file that cannot be opened
Absent == [present |-> FALSE, lines |-> <<>>]

\* a list file with its lines
Present(lines) == [present |-> TRUE, lines |-> lines]

\* file.Name() of the list file at index j of listPaths
ListPath(j) == <<"list", j>>

\* the zero value of buildStage
ZeroStage == buildStage(FALSE, <<>>, <<>>)

\* the capacity append gives a slice that is full
GrowCap(cap) == IF cap = 0 THEN 1 ELSE cap + cap

\* the elements of a slice
Elements(mem, slice) ==
    IF slice.arr = 0 THEN <<>> ELSE SubSeq(mem[slice.arr], 1, slice.len)

\* the backing arrays after append(slice, x)
AppendArrays(mem, slice, x) ==
    IF slice.len < slice.cap
    THEN [mem EXCEPT ![slice.arr][slice.len + 1] = x]
    ELSE Append(mem,
                [j \in 1..GrowCap(slice.cap) |->
                    IF j <= slice.len THEN mem[slice.arr][j]
                    ELSE IF j = slice.len + 1 THEN x
                    ELSE ZeroStage])

\* the slice append(slice, x) returns
AppendSlice(mem, slice, x) ==
    IF slice.len < slice.cap
    THEN Slice(slice.arr, slice.len + 1, slice.cap)
    ELSE Slice(Len(mem) + 1, slice.len + 1, GrowCap(slice.cap))

\* the lines of nlists files: file j holds the lines of flat from cut[j-1]+1
\* to cut[j] when it is there
FilesOf(nlists, flat, cut, there) ==
    [j \in 1..nlists |->
        IF there[j]
        THEN Present(SubSeq(flat, (IF j = 1 THEN 0 ELSE cut[j - 1]) + 1, cut[j]))
        ELSE Absent]

\* the state the loading of the list files does not touch
notLoad == <<compileVars, first, buildVars, cryptoVars, argVars>>

\* runBuild starts: stages := []buildStage{}
InitLoad ==
    /\ CompileIdle
    /\ BuildIdle
    /\ CryptoIdle
    /\ ArgsIdle
    /\ \E nlists \in 1..MaxLists, len \in 0..MaxLines :
         \E flat \in [1..len -> LineAlphabet],
            cut \in [1..nlists -> 0..len],
            there \in [1..nlists -> BOOLEAN] :
              /\ cut[nlists] = len
              /\ \A j \in 2..nlists : cut[j - 1] <= cut[j]
              /\ \A j \in 1..nlists :
                     ~there[j] => cut[j] = (IF j = 1 THEN 0 ELSE cut[j - 1])
              /\ listFiles = FilesOf(nlists, flat, cut, there)
    /\ lpc = "open"
    /\ lfile = 1
    /\ lline = 1
    /\ arrays = <<>>
    /\ loaded = Slice(0, 0, 0)
    /\ stagep = Nil
    /\ lerr = <<>>

\* the line the scanner returns next, trimmed
Line == TrimSpace(listFiles[lfile].lines[lline])

Scanning ==
    /\ lpc = "scan"
    /\ lline <= Len(listFiles[lfile].lines)

\* runBuild: os.Open of the list file fails; it is reported, the loop goes on
OpenListFails ==
    /\ lpc = "open"
    /\ lfile <= Len(listFiles)
    /\ ~listFiles[lfile].present
    /\ lerr' = Append(lerr, lfile)
    /\ lfile' = lfile + 1
    /\ UNCHANGED <<listFiles, lpc, lline, arrays, loaded, stagep>>
    /\ UNCHANGED notLoad

\* runBuild: os.Open succeeds, loadStages starts with var stage *buildStage
OpenList_KeepsStage ==
    /\ lpc = "open"
    /\ lfile <= Len(listFiles)
    /\ listFiles[lfile].present
    /\ lpc' = "scan"
    /\ lline' = 1
    /\ UNCHANGED <<listFiles, lfile, arrays, loaded, stagep, lerr>>
    /\ UNCHANGED notLoad

OpenList ==
    /\ lpc = "open"
    /\ lfile <= Len(listFiles)
    /\ listFiles[lfile].present
    /\ lpc' = "scan"
    /\ lline' = 1
    /\ stagep' = Nil
    /\ UNCHANGED <<listFiles, lfile, arrays, loaded, lerr>>
    /\ UNCHANGED notLoad

\* loadStages: the line is "[include]" or "[exclude]": a stage is appended to
\* stages and stage points to it
ScanMarker ==
    /\ Scanning
    /\ Line \in {marker_include, marker_exclude}
    /\ arrays' = AppendArrays(arrays, loaded,
                     buildStage(Line = marker_include, ListPath(lfile), <<>>))
    /\ loaded' = AppendSlice(arrays, loaded,
                     buildStage(Line = marker_include, ListPath(lfile), <<>>))
    /\ stagep' = [arr |-> loaded'.arr, idx |-> loaded'.len]
    /\ lline' = lline + 1
    /\ UNCHANGED <<listFiles, lpc, lfile, lerr>>
    /\ UNCHANGED notLoad

\* loadStages: the line is empty
ScanBlank ==
    /\ Scanning
    /\ Line = <<>>
    /\ lline' = lline + 1
    /\ UNCHANGED <<listFiles, lpc, lfile, arrays, loaded, stagep, lerr>>
    /\ UNCHANGED notLoad

\* loadStages: a rule line before any marker of this file
ScanIgnored ==
    /\ Scanning
    /\ Line \notin {marker_include, marker_exclude, <<>>}
    /\ stagep = Nil
    /\ lline' = lline + 1
    /\ UNCHANGED <<listFiles, lpc, lfile, arrays, loaded, stagep, lerr>>
    /\ UNCHANGED notLoad

\* loadStages: a rule line: stage.rules = append(stage.rules, rule)
ScanRule ==
    /\ Scanning
    /\ Line \notin {marker_include, marker_exclude, <<>>}
    /\ stagep # Nil
    /\ arrays' = [arrays EXCEPT ![stagep.arr][stagep.idx].rules =
                     Append(@, buildRule(Line, lline))]
    /\ lline' = lline + 1
    /\ UNCHANGED <<listFiles, lpc, lfile, loaded, stagep, lerr>>
    /\ UNCHANGED notLoad

\* loadStages returns stages, runBuild closes the file and goes on
EndOfFile ==
    /\ lpc = "scan"
    /\ lline > Len(listFiles[lfile].lines)
    /\ lpc' = "open"
    /\ lfile' = lfile + 1
    /\ UNCHANGED <<listFiles, lline, arrays, loaded, stagep, lerr>>
    /\ UNCHANGED notLoad

\* runBuild: the loop over listPaths is over
LoadDone ==
    /\ lpc = "open"
    /\ lfile > Len(listFiles)
    /\ lpc' = "done"
    /\ UNCHANGED <<listFiles, lfile, lline, arrays, loaded, stagep, lerr>>
    /\ UNCHANGED notLoad

NextLoad ==
    \/ OpenListFails
    \/ OpenList
    \/ ScanMarker
    \/ ScanBlank
    \/ ScanIgnored
    \/ ScanRule
    \/ EndOfFile
    \/ LoadDone

SpecLoad == InitLoad /\ [][NextLoad]_vars

RECURSIVE StagesOfLines(_, _, _)
\* the stages the first n lines of a list file stand for: a marker line
\* starts a stage, any other non-blank line is a rule of the last stage of
\* this file, and is nothing when there is none yet
StagesOfLines(source, lines, n) ==
    IF n = 0 THEN <<>>
    ELSE LET before == StagesOfLines(source, lines, n - 1)
             line == TrimSpace(lines[n])
         IN CASE line = marker_include ->
                     Append(before, buildStage(TRUE, source, <<>>))
              [] line = marker_exclude ->
                     Append(before, buildStage(FALSE, source, <<>>))
              [] line = <<>> -> before
              [] OTHER ->
                     IF before = <<>> THEN before
                     ELSE [before EXCEPT ![Len(before)].rules =
                              Append(@, buildRule(line, n))]

RECURSIVE StagesOfFiles(_, _)
\* the stages of the first n list files, those that can be opened, in order
StagesOfFiles(files, n) ==
    IF n = 0 THEN <<>>
    ELSE StagesOfFiles(files, n - 1)
           \o StagesOfLines(ListPath(n), files[n].lines, Len(files[n].lines))

\* the indices of the list files among the first n that cannot be opened
AbsentOf(files, n) == {j \in 1..n : ~files[j].present}

\* C19: stage loading: the stage sequence handed to compileStages is the
\* concatenation, in the order of the list files, of the stages of each list
\* file that can be opened (a marker line starts a stage, every other
\* non-blank line is a rule of the most recent marker of the same file, the
\* lines before the first marker of a file are ignored); a list file that
\* cannot be opened is reported, gives no stage, and the loading goes on to
\* the end.
C19_StageLoading ==
    /\ lpc = "open" =>
           /\ Elements(arrays, loaded) = StagesOfFiles(listFiles, lfile - 1)
           /\ {lerr[j] : j \in 1..Len(lerr)} = AbsentOf(listFiles, lfile - 1)
    /\ lpc = "done" =>
           /\ lfile = Len(listFiles) + 1
           /\ Elements(arrays, loaded) = StagesOfFiles(listFiles, Len(listFiles))
           /\ {lerr[j] : j \in 1..Len(lerr)} = AbsentOf(listFiles, Len(listFiles))
           /\ Len(lerr) = Cardinality(AbsentOf(listFiles, Len(listFiles)))

\* two list files were loaded: the first has a stage, the second starts with
\* a rule line before any marker
C19_Witness ==
    /\ lpc = "done"
    /\ Len(listFiles) >= 2
    /\ listFiles[1].present
    /\ listFiles[2].present
    /\ StagesOfLines(ListPath(1), listFiles[1].lines, Len(listFiles[1].lines)) # <<>>
    /\ listFiles[2].lines # <<>>
    /\ TrimSpace(listFiles[2].lines[1]) \notin {marker_include, marker_exclude, <<>>}


(***************************************************************************)
(* build: the loop over the arguments, and tryGetArg.  Indices count from  *)
(* 0 as in the code; the argument at index n of args is args[n + 1] here.  *)
(***************************************************************************)
\* the largest number of arguments after "build"
MaxArgs == 3

\* the arguments build is given: options, the empty string, a value
ArgAlphabet == {"-l", "--output", "-h", "", "x"}

HelpOptions == {"--help", "-h"}
ListOptions == {"-l", "--list"}
OutputOptions == {"-o", "--output"}

\* what a call returns: a value, or nothing because it panicked
Returned(value) == [panic |-> FALSE, value |-> value]
Panicked == [panic |-> TRUE, value |-> ""]

\* tryGetArg: "" when index < 0 or index > len(args), else args[index], which
\* panics when index is len(args)
tryGetArg(arguments, index) ==
    IF index < 0 \/ index > Len(arguments)
    THEN Returned("")
    ELSE IF index + 1 \in 1..Len(arguments)
    THEN Returned(arguments[index + 1])
    ELSE Panicked

\* build returns nil: program returns 0
ReturnedNil == Outcome("nil", <<>>, 0)

\* the exitError build returns when the value of an option is missing
ExpectedArgument(option) ==
    Outcome("exitError", <<"Expected argument after '", option, "'">>, 1)

\* an index out of range: the Go runtime ends the process with status 2
RuntimePanic == Outcome("panic", <<"index out of range">>, 2)

\* the state build's part of the program does not touch
notArgs == <<compileVars, first, buildVars, cryptoVars, loadVars>>

InitArgs ==
    /\ CompileIdle
    /\ BuildIdle
    /\ CryptoIdle
    /\ LoadIdle
    /\ \E len \in 0..MaxArgs : args \in [1..len -> ArgAlphabet]
    /\ apc = "loop"
    /\ ai = 0
    /\ lists = <<>>
    /\ outs = <<>>
    /\ aret = NotYet
    /\ aexit = "none"

InLoop ==
    /\ apc = "loop"
    /\ ai < Len(args)

\* build: --help or -h: the help is printed, nil is returned, exit status 0
BuildHelp ==
    /\ InLoop
    /\ args[ai + 1] \in HelpOptions
    /\ aret' = ReturnedNil
    /\ aexit' = ReturnedNil.code
    /\ apc' = "returned"
    /\ UNCHANGED <<args, ai, lists, outs>>
    /\ UNCHANGED notArgs

\* build: an option with its value: the value is appended to its list
BuildOption ==
    /\ InLoop
    /\ args[ai + 1] \in ListOptions \cup OutputOptions
    /\ ~tryGetArg(args, ai + 1).panic
    /\ tryGetArg(args, ai + 1).value # ""
    /\ IF args[ai + 1] \in ListOptions
       THEN /\ lists' = Append(lists, tryGetArg(args, ai + 1).value)
            /\ outs' = outs
       ELSE /\ outs' = Append(outs, tryGetArg(args, ai + 1).value)
            /\ lists' = lists
    /\ ai' = ai + 2
    /\ UNCHANGED <<args, apc, aret, aexit>>
    /\ UNCHANGED notArgs

\* build: tryGetArg returns "": an exitError with code 1 is returned, and
\* program exits with its code
BuildOptionMissing ==
    /\ InLoop
    /\ args[ai + 1] \in ListOptions \cup OutputOptions
    /\ ~tryGetArg(args, ai + 1).panic
    /\ tryGetArg(args, ai + 1).value = ""
    /\ aret' = ExpectedArgument(args[ai + 1])
    /\ aexit' = ExpectedArgument(args[ai + 1]).code
    /\ apc' = "returned"
    /\ UNCHANGED <<args, ai, lists, outs>>
    /\ UNCHANGED notArgs

\* build: tryGetArg indexes args out of range: the Go runtime panics and the
\* process exits with status 2
BuildOptionPanics ==
    /\ InLoop
    /\ args[ai + 1] \in ListOptions \cup OutputOptions
    /\ tryGetArg(args, ai + 1).panic
    /\ aret' = RuntimePanic
    /\ aexit' = RuntimePanic.code
    /\ apc' = "panicked"
    /\ UNCHANGED <<args, ai, lists, outs>>
    /\ UNCHANGED notArgs

\* build: any other argument matches no case of the switch
BuildOther ==
    /\ InLoop
    /\ args[ai + 1] \notin HelpOptions \cup ListOptions \cup OutputOptions
    /\ ai' = ai + 2
    /\ UNCHANGED <<args, apc, lists, outs, aret, aexit>>
    /\ UNCHANGED notArgs

\* build: the loop is over: the default list file, then runBuild
BuildRun ==
    /\ apc = "loop"
    /\ ai >= Len(args)
    /\ lists' = IF lists = <<>> THEN <<ListFile>> ELSE lists
    /\ apc' = "runBuild"
    /\ UNCHANGED <<args, ai, outs, aret, aexit>>
    /\ UNCHANGED notArgs

NextArgs ==
    \/ BuildHelp
    \/ BuildOption
    \/ BuildOptionMissing
    \/ BuildOptionPanics
    \/ BuildOther
    \/ BuildRun

SpecArgs == InitArgs /\ [][NextArgs]_vars

\* C20: missing option value: when the loop of build has come to an option
\* -l/--list or -o/--output that is the last argument, build returns the
\* exitError with code 1 and the message "Expected argument after '<option>'"
\* and nothing is read outside the argument list; tryGetArg returns the empty
\* string for every index outside 0..len(args)-1.
C20_MissingValue ==
    /\ (/\ apc # "loop"
        /\ ai = Len(args) - 1
        /\ args[Len(args)] \in ListOptions \cup OutputOptions) =>
           /\ apc = "returned"
           /\ aret = ExpectedArgument(args[Len(args)])
           /\ aexit = ExpectedArgument(args[Len(args)]).code
    /\ \A index \in (0 - 1)..(Len(args) + 1) :
           index \notin 0..(Len(args) - 1) =>
               tryGetArg(args, index) = Returned("")

====
